---------------------------- MODULE Spec2Model ----------------------------
(***************************************************************************)
(* MiniOS kernel (src/minios/kernel.c): VGA text console, IRQ1 keyboard    *)
(* ring buffer, in-memory file store and command shell.                    *)
(*                                                                         *)
(* Characters are C chars, modelled as their integer codes.  A C string is *)
(* the sequence of its characters before the terminating NUL.              *)
(***************************************************************************)
EXTENDS Integers, Sequences, FiniteSets, TLC

(***************************************************************************)
(* Program constants                                                       *)
(***************************************************************************)
VGA_WIDTH == 80
VGA_HEIGHT == 25
term_color == 7
KBUF_SIZE == 256
INPUT_BUF == 128
MAX_FILES == 16
MAX_NAME == 16
MAX_FILE_SIZE == 512
IDT_SIZE == 256
KBD_VECTOR == 33
GATE_FLAGS == 142

(***************************************************************************)
(* Bounds of the exploration                                               *)
(***************************************************************************)
\* scancodes the keyboard sends in the keyboard specifications
MaxIrq == 3
\* calls of keyboard_getchar_irq in the keyboard specification
MaxPops == 3
\* file-store calls in the file-store specification
MaxFsOps == 2
\* lines of full length that fill the edit buffer
FillPasses == 4
\* trailing spaces after a bare command name
MaxPad == 2
\* console calls in the console specification
MaxVgaOps == 2

(***************************************************************************)
(* C characters and strings                                                *)
(***************************************************************************)
\* the characters of codes 32..95 and 97..126, in code order
PrintableLo == " !\"#$%&'()*+,-./0123456789:;<=>?@ABCDEFGHIJKLMNOPQRSTUVWXYZ[\\]^_"
PrintableHi == "abcdefghijklmnopqrstuvwxyz{|}~"

\* the codes of the one-character strings
OrdTable ==
    [ch \in {SubSeq(PrintableLo, k, k) : k \in 1..Len(PrintableLo)}
            \cup {SubSeq(PrintableHi, k, k) : k \in 1..Len(PrintableHi)} \cup {"\n"} |->
        IF ch = "\n" THEN 10
        ELSE IF \E k \in 1..Len(PrintableLo) : SubSeq(PrintableLo, k, k) = ch
        THEN 31 + CHOOSE k \in 1..Len(PrintableLo) : SubSeq(PrintableLo, k, k) = ch
        ELSE 96 + CHOOSE k \in 1..Len(PrintableHi) : SubSeq(PrintableHi, k, k) = ch]

\* the code of a one-character string
Ord(ch) == OrdTable[ch]

\* a string literal as the sequence of its character codes
Str(s) == [k \in 1..Len(s) |-> Ord(SubSeq(s, k, k))]

\* s[k] of a C string (0-based); the terminator is 0
CharAt(s, k) == IF k < Len(s) THEN s[k + 1] ELSE 0

\* the string starting at s + k
From(s, k) == SubSeq(s, k + 1, Len(s))

\* n copies of character c
Rep(c, n) == [k \in 1..n |-> c]

Min(a, b) == IF a < b THEN a ELSE b

VARIABLES
    term_row, term_col, vga_buffer,       \* terminal cursor and grid
    kbuf, kbuf_head, kbuf_tail,           \* keyboard ring buffer
    idt, idt_loaded, pic_remapped, irq1_unmasked, int_enabled,
    files,                                \* file table
    pc, gc_c, gc_waited,                  \* foreground position, getchar's local c, whether its loop has spun
    typed, accepted, popped, irqs,        \* history of the keyboard queue
    tape,                                 \* scancodes the keyboard will still send
    call, ret, last_idx, out, nops,       \* last call recorded, its result, the slot it used, what its step printed, calls made
    written,                              \* per name, the bytes last written and not removed since
    fs_calls,                             \* calls of the file store made directly
    ed_name, ed_buf,                      \* nano_edit: its filename argument and buf[0..len)
    rl_buf, rl_from                       \* read_line: buf[0..idx), and its caller

vgaVars == <<term_row, term_col, vga_buffer>>
kbdVars == <<kbuf, kbuf_head, kbuf_tail>>
intVars == <<idt, idt_loaded, pic_remapped, irq1_unmasked, int_enabled>>
gcVars == <<gc_c, gc_waited>>
histVars == <<typed, accepted, popped, irqs, tape>>
callVars == <<call, ret, last_idx, out, nops, written, fs_calls>>
edVars == <<ed_name, ed_buf, rl_buf, rl_from>>
vars == <<term_row, term_col, vga_buffer, kbuf, kbuf_head, kbuf_tail,
          idt, idt_loaded, pic_remapped, irq1_unmasked, int_enabled,
          files, pc, gc_c, gc_waited, typed, accepted, popped, irqs, tape,
          call, ret, last_idx, out, nops, written, fs_calls, ed_name, ed_buf, rl_buf,
          rl_from>>

(***************************************************************************)
(* VGA text console.  A terminal is [row, col, buf]; buf maps a cell index *)
(* to its 16-bit cell (character | colour << 8).                           *)
(***************************************************************************)
\* (uint16_t)c | ((uint16_t)color << 8); c is a char, so a byte above 127 is
\* sign-extended and sets the whole high byte
Cell(c, color) == IF c >= 128 THEN c + 255 * 256 ELSE c + color * 256

Max(a, b) == IF a >= b THEN a ELSE b

\* the terminal t with the cells idxlo..idxhi counted among those written:
\* t.lo and t.hi are the lowest and highest index written since t was taken
\* from the state
Touch(t, idxlo, idxhi) == [t EXCEPT !.lo = Min(@, idxlo), !.hi = Max(@, idxhi)]

vga_putat(t, c, color, row, col) ==
    LET idx == (row * VGA_WIDTH + col) % 65536
    IN Touch([t EXCEPT !.buf = [@ EXCEPT ![idx] = Cell(c, color)]], idx, idx)

\* a scroll that leaves the last row as it was
vga_scroll_keep(t) ==
    Touch([t EXCEPT !.buf =
              [k \in 0..(VGA_WIDTH * VGA_HEIGHT - 1) |->
                  IF k < (VGA_HEIGHT - 1) * VGA_WIDTH THEN t.buf[k + VGA_WIDTH] ELSE t.buf[k]]],
          0, (VGA_HEIGHT - 1) * VGA_WIDTH + VGA_WIDTH - 1)

vga_scroll(t) ==
    Touch([t EXCEPT !.buf =
              [k \in 0..(VGA_WIDTH * VGA_HEIGHT - 1) |->
                  IF k < (VGA_HEIGHT - 1) * VGA_WIDTH
                  THEN t.buf[k + VGA_WIDTH]
                  ELSE Cell(32, term_color)]],
          0, (VGA_HEIGHT - 1) * VGA_WIDTH + VGA_WIDTH - 1)

\* "if (++term_row == VGA_HEIGHT) { term_row = VGA_HEIGHT - 1; vga_scroll(); }"
\* the row advanced without the test against VGA_HEIGHT
NextRow_noclamp(t) == [t EXCEPT !.row = (t.row + 1) % 256]

NextRow(t) ==
    IF t.row + 1 = VGA_HEIGHT
    THEN vga_scroll([t EXCEPT !.row = VGA_HEIGHT - 1])
    ELSE [t EXCEPT !.row = (t.row + 1) % 256]

vga_putc(t, c) ==
    IF c = 10 THEN NextRow([t EXCEPT !.col = 0])
    ELSE IF c = 13 THEN [t EXCEPT !.col = 0]
    ELSE IF c = 8 THEN
        IF t.col > 0
        THEN vga_putat([t EXCEPT !.col = t.col - 1], 32, term_color, t.row, t.col - 1)
        ELSE t
    ELSE LET w == vga_putat(t, c, term_color, t.row, t.col)
         IN IF w.col + 1 >= VGA_WIDTH
            THEN NextRow([w EXCEPT !.col = 0])
            ELSE [w EXCEPT !.col = w.col + 1]

\* vga_putc on s[lo..hi], in order (the first half is evaluated, as the value
\* half, before the second starts from it)
RECURSIVE vga_put_range(_, _, _, _)
vga_put_range(t, s, lo, hi) ==
    IF lo > hi THEN t
    ELSE IF lo = hi THEN vga_putc(t, s[lo])
    ELSE LET mid == (lo + hi) \div 2
         IN CHOOSE r \in {vga_put_range(half, s, mid + 1, hi) :
                              half \in {vga_put_range(t, s, lo, mid)}} : TRUE

vga_puts(t, s) == vga_put_range(t, s, 1, Len(s))

vga_clear(t) ==
    Touch([t EXCEPT !.row = 0, !.col = 0,
                    !.buf = [k \in 0..(VGA_WIDTH * VGA_HEIGHT - 1) |-> Cell(32, term_color)]],
          0, VGA_WIDTH * VGA_HEIGHT - 1)

Term == [row |-> term_row, col |-> term_col, buf |-> vga_buffer,
         lo |-> VGA_WIDTH * VGA_HEIGHT, hi |-> -1]

\* the foreground writes bytes s to the console
Emit(s) ==
    LET t == vga_puts(Term, s)
    IN /\ term_row' = t.row
       /\ term_col' = t.col
       /\ vga_buffer' = t.buf

(***************************************************************************)
(* kprintf: the bytes it passes to vga_putc                                *)
(***************************************************************************)
Digit(d) == IF d < 10 THEN 48 + d ELSE 97 + d - 10

\* kputu: digits collected least significant first, emitted in reverse
RECURSIVE kputu_digits(_, _)
kputu_digits(val, base) ==
    IF val = 0 THEN <<>>
    ELSE kputu_digits(val \div base, base) \o <<Digit(val % base)>>

kputu(val, base) == IF val = 0 THEN <<48>> ELSE kputu_digits(val, base)

\* the magnitude (uint32_t)(-val) is -val for every val above INT_MIN
kputi(val, base) ==
    IF val < 0 THEN <<45>> \o kputu(0 - val, base)
    ELSE kputu(val, base)

RECURSIVE kprintf_from(_, _, _)
kprintf_from(fmt, k, args) ==
    IF CharAt(fmt, k) = 0 THEN <<>>
    ELSE IF CharAt(fmt, k) # 37 THEN <<CharAt(fmt, k)>> \o kprintf_from(fmt, k + 1, args)
    ELSE LET f == CharAt(fmt, k + 1)
         IN IF f = 115 THEN Head(args) \o kprintf_from(fmt, k + 2, Tail(args))
            ELSE IF f = 100 THEN kputi(Head(args), 10) \o kprintf_from(fmt, k + 2, Tail(args))
            ELSE IF f = 117 THEN kputu(Head(args), 10) \o kprintf_from(fmt, k + 2, Tail(args))
            ELSE IF f = 120 THEN kputu(Head(args), 16) \o kprintf_from(fmt, k + 2, Tail(args))
            ELSE IF f = 99 THEN <<Head(args)>> \o kprintf_from(fmt, k + 2, Tail(args))
            ELSE <<37, f>> \o kprintf_from(fmt, k + 2, args)

kprintf(fmt, args) == kprintf_from(Str(fmt), 0, args)

(***************************************************************************)
(* Scancode translation and the keyboard ring buffer.                      *)
(* A queue is [buf, head, tail].                                           *)
(***************************************************************************)
scancode_map ==
    <<0, 27, 49, 50, 51, 52, 53, 54, 55, 56, 57, 48, 45, 61, 8,
      9, 113, 119, 101, 114, 116, 121, 117, 105, 111, 112, 91, 93, 10, 0,
      97, 115, 100, 102, 103, 104, 106, 107, 108, 59, 39, 96, 0, 92, 122, 120,
      99, 118, 98, 110, 109, 44, 46, 47, 0, 42, 0, 32>>
    \o [k \in 1..70 |-> 0]

\* the make code of the key that types c
Scancode(c) == CHOOSE sc \in 0..(Len(scancode_map) - 1) : scancode_map[sc + 1] = c

\* the table read one entry too far
Decode_shifted(sc) ==
    IF sc >= 128 THEN 0
    ELSE IF sc + 1 < Len(scancode_map) THEN scancode_map[sc + 2] ELSE 0

\* the character keyboard_handler decodes from scancode sc; 0: none
Decode(sc) ==
    IF sc >= 128 THEN 0
    ELSE IF sc < Len(scancode_map) THEN scancode_map[sc + 1] ELSE 0

Queue == [buf |-> kbuf, head |-> kbuf_head, tail |-> kbuf_tail]

\* keyboard_handler without the full test: it stores into a full queue
keyboard_handler_nocheck(q, sc) ==
    LET c == Decode(sc)
        next == (q.head + 1) % KBUF_SIZE
    IN IF c = 0 THEN q
       ELSE [q EXCEPT !.buf = [@ EXCEPT ![q.head] = c], !.head = next]

\* keyboard_handler that makes room in a full queue by dropping the oldest
\* character
keyboard_handler_overwrite(q, sc) ==
    LET c == Decode(sc)
        next == (q.head + 1) % KBUF_SIZE
    IN IF c = 0 THEN q
       ELSE [q EXCEPT !.buf = [@ EXCEPT ![q.head] = c], !.head = next,
                      !.tail = IF next # q.tail THEN @ ELSE (@ + 1) % KBUF_SIZE]

keyboard_handler(q, sc) ==
    LET c == Decode(sc)
        next == (q.head + 1) % KBUF_SIZE
    IN IF c = 0 THEN q
       ELSE IF next # q.tail
            THEN [q EXCEPT !.buf = [@ EXCEPT ![q.head] = c], !.head = next]
            ELSE q

\* n consecutive runs of keyboard_handler on scancode sc
RECURSIVE HandlerRuns(_, _, _)
HandlerRuns(q, sc, n) ==
    IF n = 0 THEN q
    ELSE IF n = 1 THEN keyboard_handler(q, sc)
    ELSE CHOOSE r \in {HandlerRuns(half, sc, n - n \div 2) :
                            half \in {HandlerRuns(q, sc, n \div 2)}} : TRUE

\* keyboard_getchar_irq: the loop condition, the read and the advance
\* a loop that never waits
SpinWaits_never(head, tail) == FALSE

SpinWaits(head, tail) == head = tail

\* a read of the newest character instead of the oldest
ReadSlot_newest(q) == q.buf[(q.head - 1) % KBUF_SIZE]

ReadSlot(q) == q.buf[q.tail]

\* an advance that does not wrap
AdvanceTail_nowrap(tail) == tail + 1

AdvanceTail(tail) == (tail + 1) % KBUF_SIZE

(***************************************************************************)
(* History of the queue, kept beside the program state: the characters     *)
(* decoded by the handler (typed), those decoded while the queue had room  *)
(* (accepted) and those returned by keyboard_getchar_irq (popped).         *)
(***************************************************************************)
IsFull(head, tail) == (head + 1) % KBUF_SIZE = tail

\* the history h after one interrupt with scancode sc arrives
HistoryStep(h, sc) ==
    LET c == Decode(sc)
        room == ~IsFull(h.head, h.tail)
    IN IF c = 0 THEN h
       ELSE [typed |-> Append(h.typed, c),
             accepted |-> IF room THEN Append(h.accepted, c) ELSE h.accepted,
             head |-> IF room THEN (h.head + 1) % KBUF_SIZE ELSE h.head,
             tail |-> h.tail]

RECURSIVE HistoryRuns(_, _, _)
HistoryRuns(h, sc, n) ==
    IF n = 0 THEN h
    ELSE IF n = 1 THEN HistoryStep(h, sc)
    ELSE CHOOSE r \in {HistoryRuns(half, sc, n - n \div 2) :
                            half \in {HistoryRuns(h, sc, n \div 2)}} : TRUE

\* the slots from tail up to head, in order
SlotsFrom(buf, tail, head) ==
    [k \in 1..((head - tail) % KBUF_SIZE) |-> buf[(tail + k - 1) % KBUF_SIZE]]

Pending == SlotsFrom(kbuf, kbuf_tail, kbuf_head)

(***************************************************************************)
(* Interrupt set-up                                                        *)
(***************************************************************************)
NoGate == [handler |-> "", selector |-> 0, flags |-> 0]

idt_init == [n \in 0..(IDT_SIZE - 1) |-> NoGate]

\* a gate installed one vector too low (the timer's, 0x20)
idt_set_gate_irq0(table, n, handler) ==
    [table EXCEPT ![n - 1] = [handler |-> handler, selector |-> 8, flags |-> GATE_FLAGS]]

idt_set_gate(table, n, handler) ==
    [table EXCEPT ![n] = [handler |-> handler, selector |-> 8, flags |-> GATE_FLAGS]]

\* the hardware delivers IRQ1 to keyboard_handler
Armed ==
    /\ int_enabled
    /\ irq1_unmasked
    /\ idt_loaded
    /\ idt[KBD_VECTOR].handler = "irq1_entry"

(***************************************************************************)
(* File store.  A file entry is [name, used, size, data]; data maps        *)
(* 0..MAX_FILE_SIZE-1 to bytes.                                            *)
(***************************************************************************)
NoFile ==
    [name |-> <<>>, used |-> 0, size |-> 0,
     data |-> [k \in 0..(MAX_FILE_SIZE - 1) |-> 0]]

\* data[0..n) copied over the first n bytes of old
CopyInto(old, data, n) ==
    [k \in 0..(MAX_FILE_SIZE - 1) |-> IF k < n THEN data[k + 1] ELSE old[k]]

\* the name fs_init and fs_create store: at most MAX_NAME - 1 characters
StoredName(name) == SubSeq(name, 1, Min(Len(name), MAX_NAME - 1))

WelcomeText == Str("welcome: This is MiniOS (in-memory FS)\n")

\* the lowest free slot, or -1
RECURSIVE FirstFree(_, _)
FirstFree(fl, k) ==
    IF k >= MAX_FILES THEN -1
    ELSE IF fl[k].used = 0 THEN k
    ELSE FirstFree(fl, k + 1)

fs_init(fl) ==
    LET cleared == [k \in 0..(MAX_FILES - 1) |-> [fl[k] EXCEPT !.used = 0]]
        idx == FirstFree(cleared, 0)
        n == Min(Len(WelcomeText), MAX_FILE_SIZE)
    IN IF idx >= 0
       THEN [cleared EXCEPT ![idx] =
                [name |-> StoredName(Str("welcome")), used |-> 1, size |-> n,
                 data |-> CopyInto(cleared[idx].data, WelcomeText, n)]]
       ELSE cleared

\* the loop of fs_find: the first index at which stored and name differ or end
RECURSIVE MatchLen(_, _, _)
MatchLen(stored, name, k) ==
    IF /\ k < MAX_NAME
       /\ CharAt(stored, k) # 0
       /\ CharAt(name, k) # 0
       /\ CharAt(stored, k) = CharAt(name, k)
    THEN MatchLen(stored, name, k + 1)
    ELSE k

NameMatches(stored, name) ==
    LET k == MatchLen(stored, name, 0)
    IN CharAt(stored, k) = 0 /\ CharAt(name, k) = 0

RECURSIVE fs_find_from(_, _, _)
fs_find_from(fl, name, k) ==
    IF k >= MAX_FILES THEN -1
    ELSE IF fl[k].used # 0 /\ NameMatches(fl[k].name, name) THEN k
    ELSE fs_find_from(fl, name, k + 1)

fs_find(fl, name) == fs_find_from(fl, name, 0)

\* fs_create, fs_write and fs_remove give [files, ret, idx]: the table after
\* the call, the value returned and the slot used (-1: none)
\* fs_create without the test for an existing name
fs_create_nodup(fl, name) ==
    LET k == FirstFree(fl, 0)
    IN IF k >= 0
       THEN [files |-> [fl EXCEPT ![k] =
                           [@ EXCEPT !.used = 1, !.size = 0, !.name = StoredName(name)]],
             ret |-> k, idx |-> k]
       ELSE [files |-> fl, ret |-> -1, idx |-> -1]

fs_create(fl, name) ==
    IF fs_find(fl, name) >= 0 THEN [files |-> fl, ret |-> -1, idx |-> -1]
    ELSE LET k == FirstFree(fl, 0)
         IN IF k >= 0
            THEN [files |-> [fl EXCEPT ![k] =
                                [@ EXCEPT !.used = 1, !.size = 0, !.name = StoredName(name)]],
                  ret |-> k, idx |-> k]
            ELSE [files |-> fl, ret |-> -1, idx |-> -1]

\* "while (n < len && n < MAX_FILE_SIZE)": the bytes copied
\* a copy loop bounded by len alone
CopyCount_nocap(len) == IF len < 0 THEN 0 ELSE len

CopyCount(len) == IF len < 0 THEN 0 ELSE Min(len, MAX_FILE_SIZE)

fs_write(fl, name, data, len) ==
    LET found == fs_find(fl, name)
        made == IF found < 0 THEN fs_create(fl, name)
                ELSE [files |-> fl, ret |-> found, idx |-> found]
        idx == made.ret
        n == CopyCount(len)
    IN IF idx < 0 THEN [files |-> fl, ret |-> -1, idx |-> -1]
       ELSE [files |-> [made.files EXCEPT ![idx] =
                           [@ EXCEPT !.data = CopyInto(@, data, n), !.size = n]],
             ret |-> n, idx |-> idx]

\* fs_read_to_console gives [ret, out]: the value returned and the bytes
\* passed to vga_putc
fs_read_to_console(fl, name) ==
    LET idx == fs_find(fl, name)
    IN IF idx < 0 THEN [ret |-> -1, out |-> <<>>, idx |-> -1]
       ELSE [ret |-> fl[idx].size,
             out |-> [k \in 1..fl[idx].size |-> fl[idx].data[k - 1]],
             idx |-> idx]

fs_remove(fl, name) ==
    LET idx == fs_find(fl, name)
    IN IF idx < 0 THEN [files |-> fl, ret |-> -1, idx |-> -1]
       ELSE [files |-> [fl EXCEPT ![idx] = [@ EXCEPT !.used = 0]], ret |-> 0, idx |-> idx]

RECURSIVE fs_list_from(_, _)
fs_list_from(fl, k) ==
    IF k >= MAX_FILES THEN <<>>
    ELSE (IF fl[k].used # 0
          THEN kprintf("  %s (%d bytes)\n", <<fl[k].name, fl[k].size>>)
          ELSE <<>>)
         \o fs_list_from(fl, k + 1)

fs_list(fl) == kprintf("Files:\n", <<>>) \o fs_list_from(fl, 0)

(***************************************************************************)
(* Initial state: the kernel image as loaded, before kernel_main runs.     *)
(* Static data is zero; video memory and the interrupt mask hold whatever  *)
(* the firmware left; interrupt delivery is off at entry.                  *)
(***************************************************************************)
NoCall == [fn |-> "", name |-> <<>>, data |-> <<>>, len |-> 0]

\* the scancodes the keyboard sends in the keyboard specifications: the make
\* codes of a and b and the break code of a
Scancodes == {30, 48, 158}

Init ==
    /\ term_row = 0
    /\ term_col = 0
    /\ vga_buffer \in {[k \in 0..(VGA_WIDTH * VGA_HEIGHT - 1) |-> v] : v \in {0, Cell(65, 31)}}
    /\ kbuf = [k \in 0..(KBUF_SIZE - 1) |-> 0]
    /\ kbuf_head = 0
    /\ kbuf_tail = 0
    /\ idt = [n \in 0..(IDT_SIZE - 1) |-> NoGate]
    /\ idt_loaded = FALSE
    /\ pic_remapped = FALSE
    /\ irq1_unmasked \in BOOLEAN
    /\ int_enabled = FALSE
    /\ files = [k \in 0..(MAX_FILES - 1) |-> NoFile]
    /\ pc = "start"
    /\ gc_c = 0
    /\ gc_waited = FALSE
    /\ typed = <<>>
    /\ accepted = <<>>
    /\ popped = <<>>
    /\ irqs = 0
    /\ tape \in [1..MaxIrq -> Scancodes]
    /\ call = NoCall
    /\ ret = 0
    /\ last_idx = -1
    /\ out = <<>>
    /\ nops = 0
    /\ fs_calls = 0
    /\ written = <<>>
    /\ ed_name = <<>>
    /\ ed_buf = <<>>
    /\ rl_buf = <<>>
    /\ rl_from = "none"

(***************************************************************************)
(* kernel_main up to its command loop, one step per call                   *)
(***************************************************************************)
BootClear ==
    /\ pc = "start"
    /\ LET t == vga_clear(Term)
       IN /\ term_row' = t.row
          /\ term_col' = t.col
          /\ vga_buffer' = t.buf
    /\ pc' = "install"
    /\ UNCHANGED <<edVars, kbdVars, intVars, files, gcVars, histVars, callVars>>

\* interrupts_install: "kbuf_head = kbuf_tail = 0"
InstallReset ==
    /\ pc = "install"
    /\ kbuf_head' = 0
    /\ kbuf_tail' = 0
    /\ pc' = "pic_remap"
    /\ UNCHANGED <<edVars, vgaVars, kbuf, intVars, files, gcVars, histVars, callVars>>

\* pic_remap: vector bases 0x20/0x28, the saved masks written back
PicRemap ==
    /\ pc = "pic_remap"
    /\ pic_remapped' = TRUE
    /\ pc' = "idt_init"
    /\ UNCHANGED <<edVars, vgaVars, kbdVars, idt, idt_loaded, irq1_unmasked, int_enabled,
                   files, gcVars, histVars, callVars>>

IdtInit ==
    /\ pc = "idt_init"
    /\ idt' = idt_init
    /\ pc' = "idt_set_gate"
    /\ UNCHANGED <<edVars, vgaVars, kbdVars, idt_loaded, pic_remapped, irq1_unmasked, int_enabled,
                   files, gcVars, histVars, callVars>>

IdtSetGate ==
    /\ pc = "idt_set_gate"
    /\ idt' = idt_set_gate(idt, KBD_VECTOR, "irq1_entry")
    /\ pc' = "idt_load"
    /\ UNCHANGED <<edVars, vgaVars, kbdVars, idt_loaded, pic_remapped, irq1_unmasked, int_enabled,
                   files, gcVars, histVars, callVars>>

IdtLoad ==
    /\ pc = "idt_load"
    /\ idt_loaded' = TRUE
    /\ pc' = "pic_unmask"
    /\ UNCHANGED <<edVars, vgaVars, kbdVars, idt, pic_remapped, irq1_unmasked, int_enabled,
                   files, gcVars, histVars, callVars>>

PicUnmaskKeyboard ==
    /\ pc = "pic_unmask"
    /\ irq1_unmasked' = TRUE
    /\ pc' = "sti"
    /\ UNCHANGED <<edVars, vgaVars, kbdVars, idt, idt_loaded, pic_remapped, int_enabled,
                   files, gcVars, histVars, callVars>>

Sti ==
    /\ pc = "sti"
    /\ int_enabled' = TRUE
    /\ pc' = "fs_init"
    /\ UNCHANGED <<edVars, vgaVars, kbdVars, idt, idt_loaded, pic_remapped, irq1_unmasked,
                   files, gcVars, histVars, callVars>>

FsInit ==
    /\ pc = "fs_init"
    /\ files' = fs_init(files)
    /\ pc' = "banner"
    /\ UNCHANGED <<edVars, vgaVars, kbdVars, intVars, gcVars, histVars, callVars>>

BannerText ==
    kprintf("MiniOS v0.3 - terminal + tiny FS\n", <<>>)
    \o kprintf("Type 'help' for commands.\n\n", <<>>)
    \o kprintf("mini> ", <<>>)

\* the banner and the first prompt
Banner ==
    /\ pc = "banner"
    /\ Emit(BannerText)
    /\ pc' = "loop"
    /\ UNCHANGED <<edVars, kbdVars, intVars, files, gcVars, histVars, callVars>>

Boot ==
    \/ BootClear
    \/ InstallReset
    \/ PicRemap
    \/ IdtInit
    \/ IdtSetGate
    \/ IdtLoad
    \/ PicUnmaskKeyboard
    \/ Sti
    \/ FsInit
    \/ Banner

(***************************************************************************)
(* States at the first prompt: kernel_main has printed the banner and      *)
(* "mini> ", and read_line is about to call keyboard_getchar_irq.          *)
(***************************************************************************)
\* the terminal as the static initialisers leave it, the cells being whatever
\* the firmware left (vga_clear overwrites them all)
PowerOnTerm ==
    [row |-> 0, col |-> 0, buf |-> [k \in 0..(VGA_WIDTH * VGA_HEIGHT - 1) |-> 0],
     lo |-> VGA_WIDTH * VGA_HEIGHT, hi |-> -1]

BootedTerm == vga_puts(vga_clear(PowerOnTerm), BannerText)

\* one whole call of keyboard_getchar_irq on a queue that is not empty,
\* appended to the characters returned so far
GetcharRun(st) ==
    [q |-> [st.q EXCEPT !.tail = AdvanceTail(st.q.tail)],
     popped |-> Append(st.popped, ReadSlot(st.q))]

RECURSIVE GetcharRuns(_, _)
GetcharRuns(st, n) ==
    IF n = 0 THEN st
    ELSE IF n = 1 THEN GetcharRun(st)
    ELSE CHOOSE r \in {GetcharRuns(half, n - n \div 2) :
                            half \in {GetcharRuns(st, n \div 2)}} : TRUE

\* the state at the first prompt after Backspace was pressed `erased` times,
\* each press stored by keyboard_handler and read by read_line (which has
\* nothing to erase and echoes nothing), and the key a then sent `held` make
\* codes before read_line's next call of keyboard_getchar_irq
AtPrompt(erased, held) ==
    LET q0 == [buf |-> [k \in 0..(KBUF_SIZE - 1) |-> 0], head |-> 0, tail |-> 0]
        h0 == [typed |-> <<>>, accepted |-> <<>>, head |-> 0, tail |-> 0]
        r == GetcharRuns([q |-> HandlerRuns(q0, Scancode(8), erased), popped |-> <<>>],
                         erased)
        q == HandlerRuns(r.q, Scancode(97), held)
        h1 == HistoryRuns(h0, Scancode(8), erased)
        h == HistoryRuns([h1 EXCEPT !.tail = r.q.tail], Scancode(97), held)
    IN /\ term_row = BootedTerm.row
       /\ term_col = BootedTerm.col
       /\ vga_buffer = BootedTerm.buf
       /\ kbuf = q.buf
       /\ kbuf_head = q.head
       /\ kbuf_tail = q.tail
       /\ idt = idt_set_gate(idt_init, KBD_VECTOR, "irq1_entry")
       /\ idt_loaded = TRUE
       /\ pic_remapped = TRUE
       /\ irq1_unmasked = TRUE
       /\ int_enabled = TRUE
       /\ files = fs_init([k \in 0..(MAX_FILES - 1) |-> NoFile])
       /\ pc = "loop"
       /\ gc_c = IF erased > 0 THEN 8 ELSE 0
       /\ gc_waited = FALSE
       /\ typed = h.typed
       /\ accepted = h.accepted
       /\ popped = r.popped
       /\ irqs = erased + held
       /\ call = NoCall
       /\ ret = 0
       /\ last_idx = -1
       /\ out = <<>>
       /\ nops = 0
       /\ fs_calls = 0
       /\ written = <<>>
       /\ ed_name = <<>>
       /\ ed_buf = <<>>
       /\ rl_buf = <<>>
       /\ rl_from = IF erased > 0 THEN "loop" ELSE "none"

\* the first prompt with nothing typed and nothing to come
InitLoop ==
    /\ AtPrompt(0, 0)
    /\ tape = <<>>

\* power-on, or the first prompt with the queue one short of full and
\* kbuf_tail at the last slot
InitKbd ==
    \/ Init
    \/ /\ AtPrompt(KBUF_SIZE - 1, KBUF_SIZE - 2)
       /\ tape \in [1..MaxIrq -> Scancodes]

(***************************************************************************)
(* The keyboard.  tape holds the scancodes the keyboard will still send,   *)
(* in order.  A keyboard interrupt is one run of keyboard_handler, to      *)
(* completion, on the next of them.                                        *)
(***************************************************************************)
Deliver(sc) ==
    LET q == keyboard_handler(Queue, sc)
        h == HistoryStep([typed |-> typed, accepted |-> accepted,
                          head |-> kbuf_head, tail |-> kbuf_tail], sc)
    IN /\ kbuf' = q.buf
       /\ kbuf_head' = q.head
       /\ kbuf_tail' = q.tail
       /\ typed' = h.typed
       /\ accepted' = h.accepted
       /\ UNCHANGED <<edVars, vgaVars, intVars, files, pc, gcVars, popped, callVars>>

\* the interrupt arrives between any two steps of the foreground
KeyboardIrq ==
    /\ Armed
    /\ tape # <<>>
    /\ tape' = Tail(tape)
    /\ irqs' = irqs + 1
    /\ Deliver(Head(tape))

\* the next key is pressed once the kernel waits for it
KeyTyped ==
    /\ pc = "gc_spin"
    /\ gc_waited
    /\ kbuf_head = kbuf_tail
    /\ Armed
    /\ tape # <<>>
    /\ tape' = Tail(tape)
    /\ irqs' = irqs + 1
    /\ Deliver(Head(tape))

(***************************************************************************)
(* Foreground: read_line, called by kernel_main (pc = "loop") and by       *)
(* nano_edit (pc = "nano") after the prompt, and keyboard_getchar_irq,     *)
(* called by each pass of read_line's loop.                                *)
(***************************************************************************)
\* read_line calls keyboard_getchar_irq
GetcharBegin ==
    /\ pc \in {"loop", "nano"}
    /\ pc' = "gc_spin"
    /\ rl_from' = pc
    /\ gc_waited' = FALSE
    /\ UNCHANGED <<ed_name, ed_buf, rl_buf, vgaVars, kbdVars, intVars, files, gc_c,
                   histVars, call, ret, last_idx, out, written, fs_calls>>

GetcharEnter ==
    /\ GetcharBegin
    /\ nops' = nops

\* the calls so far are counted in nops
GetcharCall ==
    /\ nops < MaxPops
    /\ GetcharBegin
    /\ nops' = nops + 1

\* "while (kbuf_head == kbuf_tail) {}": one more turn of the loop
GetcharWait ==
    /\ pc = "gc_spin"
    /\ SpinWaits(kbuf_head, kbuf_tail)
    /\ gc_waited' = TRUE
    /\ UNCHANGED <<edVars, vgaVars, kbdVars, intVars, files, pc, gc_c, histVars, callVars>>

\* the loop is left
GetcharSpin ==
    /\ pc = "gc_spin"
    /\ ~SpinWaits(kbuf_head, kbuf_tail)
    /\ pc' = "gc_read"
    /\ UNCHANGED <<edVars, vgaVars, kbdVars, intVars, files, gcVars, histVars, callVars>>

\* "char c = kbuf[kbuf_tail]"
GetcharRead ==
    /\ pc = "gc_read"
    /\ gc_c' = ReadSlot(Queue)
    /\ pc' = "gc_adv"
    /\ UNCHANGED <<edVars, vgaVars, kbdVars, intVars, files, gc_waited, histVars, callVars>>

\* "kbuf_tail = (kbuf_tail + 1) % KBUF_SIZE; return c"
GetcharReturn ==
    /\ pc = "gc_adv"
    /\ kbuf_tail' = AdvanceTail(kbuf_tail)
    /\ popped' = Append(popped, gc_c)
    /\ pc' = "rl_char"
    /\ UNCHANGED <<edVars, vgaVars, kbuf, kbuf_head, intVars, files, gcVars,
                   typed, accepted, irqs, tape, callVars>>

GetcharBody ==
    \/ GetcharWait
    \/ GetcharSpin
    \/ GetcharRead
    \/ GetcharReturn

\* read_line's loop body on character c: [buf, term, done]
read_line_pass(st, c, bufsize) ==
    IF c = 10 \/ c = 13
    THEN [buf |-> st.buf, term |-> vga_putc(st.term, 10), done |-> TRUE]
    ELSE IF c = 8
    THEN IF Len(st.buf) > 0
         THEN [buf |-> SubSeq(st.buf, 1, Len(st.buf) - 1),
               term |-> vga_putc(st.term, 8), done |-> FALSE]
         ELSE st
    ELSE IF Len(st.buf) < bufsize - 1
         THEN [buf |-> Append(st.buf, c), term |-> vga_putc(st.term, c), done |-> FALSE]
         ELSE st

\* the rest of the pass, on the character keyboard_getchar_irq returned: the
\* next pass calls keyboard_getchar_irq again, Enter makes read_line return
\* (pc = "entered") with rl_buf the line
ReadLinePass ==
    /\ pc = "rl_char"
    /\ LET r == read_line_pass([buf |-> rl_buf, term |-> Term, done |-> FALSE],
                               gc_c, INPUT_BUF)
       IN /\ rl_buf' = r.buf
          /\ term_row' = r.term.row
          /\ term_col' = r.term.col
          /\ vga_buffer' = r.term.buf
          /\ pc' = IF r.done THEN "entered" ELSE rl_from
    /\ UNCHANGED <<ed_name, ed_buf, rl_from, kbdVars, intVars, files, gcVars,
                   histVars, callVars>>

ReadLine ==
    \/ GetcharEnter
    \/ GetcharBody
    \/ ReadLinePass

(***************************************************************************)
(* The keyboard queue: kernel_main from power-on, read_line at the first   *)
(* prompt, interrupts between any two steps.  No Enter is sent.            *)
(***************************************************************************)
NextKbd ==
    \/ Boot
    \/ KeyboardIrq
    \/ GetcharCall
    \/ GetcharBody
    \/ ReadLinePass

SpecKbd == InitKbd /\ [][NextKbd]_vars

(***************************************************************************)
(* The keyboard with a foreground that keeps running: the processor        *)
(* executes kernel_main's next instruction whenever there is one, so the   *)
(* foreground steps are weakly fair.  Interrupts arrive or not.            *)
(***************************************************************************)
Foreground ==
    \/ Boot
    \/ ReadLine

NextKbdLive ==
    \/ Foreground
    \/ KeyboardIrq

SpecKbdLive == Init /\ [][NextKbdLive]_vars /\ WF_vars(Foreground)

(***************************************************************************)
(* The file store called directly, one call a step, with kernel_main in    *)
(* its command loop and every typed line run.  fs_create is called by      *)
(* touch with any argument, fs_write by write and by the editor, fs_remove *)
(* by rm, fs_read_to_console by cat, fs_list by ls.                        *)
(***************************************************************************)
\* file names: short ones, one of MAX_NAME - 1 characters and one of MAX_NAME
LongName == Rep(120, MAX_NAME)
Names == {Str("a"), Str("welcome"), StoredName(LongName), LongName}

\* (data, len) arguments of fs_write
WriteArgs ==
    {[data |-> Str("hi"), len |-> 2],
     [data |-> Str("hello"), len |-> 5],
     [data |-> Rep(122, MAX_FILE_SIZE + 1), len |-> MAX_FILE_SIZE + 1]}

\* written with name mapped to data
Remember(name, data) ==
    [n \in (DOMAIN written) \cup {name} |-> IF n = name THEN data ELSE written[n]]

\* written without name
Forget(name) == [n \in (DOMAIN written) \ {name} |-> written[n]]

FsCreate(name) ==
    /\ pc = "loop"
    /\ tape = <<>>
    /\ fs_calls < MaxFsOps
    /\ LET r == fs_create(files, name)
       IN /\ files' = r.files
          /\ ret' = r.ret
          /\ last_idx' = r.idx
    /\ call' = [fn |-> "fs_create", name |-> name, data |-> <<>>, len |-> 0]
    /\ out' = <<>>
    /\ nops' = nops + 1
    /\ fs_calls' = fs_calls + 1
    /\ UNCHANGED <<edVars, vgaVars, kbdVars, intVars, pc, gcVars, histVars, written>>

FsWrite(name, a) ==
    /\ pc = "loop"
    /\ tape = <<>>
    /\ fs_calls < MaxFsOps
    /\ LET r == fs_write(files, name, a.data, a.len)
       IN /\ files' = r.files
          /\ ret' = r.ret
          /\ last_idx' = r.idx
          /\ written' = IF r.ret >= 0
                        THEN Remember(name, SubSeq(a.data, 1, r.ret))
                        ELSE written
    /\ call' = [fn |-> "fs_write", name |-> name, data |-> a.data, len |-> a.len]
    /\ out' = <<>>
    /\ nops' = nops + 1
    /\ fs_calls' = fs_calls + 1
    /\ UNCHANGED <<edVars, vgaVars, kbdVars, intVars, pc, gcVars, histVars>>

FsRemove(name) ==
    /\ pc = "loop"
    /\ tape = <<>>
    /\ fs_calls < MaxFsOps
    /\ LET r == fs_remove(files, name)
       IN /\ files' = r.files
          /\ ret' = r.ret
          /\ last_idx' = r.idx
          /\ written' = IF r.ret >= 0 THEN Forget(name) ELSE written
    /\ call' = [fn |-> "fs_remove", name |-> name, data |-> <<>>, len |-> 0]
    /\ out' = <<>>
    /\ nops' = nops + 1
    /\ fs_calls' = fs_calls + 1
    /\ UNCHANGED <<edVars, vgaVars, kbdVars, intVars, pc, gcVars, histVars>>

FsRead(name) ==
    /\ pc = "loop"
    /\ tape = <<>>
    /\ fs_calls < MaxFsOps
    /\ LET r == fs_read_to_console(files, name)
       IN /\ ret' = r.ret
          /\ last_idx' = r.idx
          /\ out' = r.out
          /\ Emit(r.out)
    /\ call' = [fn |-> "fs_read_to_console", name |-> name, data |-> <<>>, len |-> 0]
    /\ nops' = nops + 1
    /\ fs_calls' = fs_calls + 1
    /\ UNCHANGED <<edVars, kbdVars, intVars, files, pc, gcVars, histVars, written>>

FsList ==
    /\ pc = "loop"
    /\ tape = <<>>
    /\ fs_calls < MaxFsOps
    /\ out' = fs_list(files)
    /\ Emit(fs_list(files))
    /\ call' = [fn |-> "fs_list", name |-> <<>>, data |-> <<>>, len |-> 0]
    /\ ret' = 0
    /\ last_idx' = -1
    /\ nops' = nops + 1
    /\ fs_calls' = fs_calls + 1
    /\ UNCHANGED <<edVars, kbdVars, intVars, files, pc, gcVars, histVars, written>>

(***************************************************************************)
(* The line editor and the shell.  A line is what read_line left in its    *)
(* buffer: at most INPUT_BUF - 1 characters, none of them NUL.             *)
(***************************************************************************)
\* index of the first character at or after k that is not a space
skip_spaces(s, k) ==
    CHOOSE j \in k..Len(s) :
        /\ \A i \in k..(j - 1) : CharAt(s, i) = 32
        /\ CharAt(s, j) # 32

\* the characters of s from index k on are those of w
Match(s, k, w) == \A i \in 0..(Len(w) - 1) : CharAt(s, k + i) = Ord(SubSeq(w, i + 1, i + 1))

\* nano_edit up to its loop: the buffer loaded and the header printed
nano_open(fl, filename) ==
    LET idx == fs_find(fl, filename)
        len == IF idx >= 0 THEN Min(fl[idx].size, MAX_FILE_SIZE) ELSE 0
        buf == [k \in 1..len |-> fl[idx].data[k - 1]]
    IN [buf |-> buf,
        out |-> kprintf("--- nano: editing %s (max %d bytes) ---\n", <<filename, MAX_FILE_SIZE>>)
                \o kprintf("Commands: .help .save .wq .quit\n", <<>>)
                \o (IF len > 0
                    THEN kprintf("--- current contents ---\n", <<>>) \o buf
                         \o kprintf("--- end ---\n", <<>>)
                    ELSE <<>>)]

EditorHelp ==
    kprintf("Editor commands:\n", <<>>)
    \o kprintf("  .help - show this message\n", <<>>)
    \o kprintf("  .save - save to file\n", <<>>)
    \o kprintf("  .wq   - write and quit\n", <<>>)
    \o kprintf("  .quit - quit without saving\n", <<>>)

SaveReport(n) ==
    IF n < 0 THEN kprintf("Save failed\n", <<>>) ELSE kprintf("Saved %d bytes\n", <<n>>)

\* one pass of nano_edit's loop body on the line read, giving
\* [files, buf, out, done]
nano_line(fl, filename, buf, line) ==
    LET same == [files |-> fl, buf |-> buf, out |-> <<>>, done |-> FALSE]
        w == fs_write(fl, filename, buf, Len(buf))
        room == MAX_FILE_SIZE - Len(buf)
        take == Min(Len(line), room)
        grown == buf \o SubSeq(line, 1, take)
    IN IF CharAt(line, 0) = 0 THEN same
       ELSE IF CharAt(line, 0) = 46
       THEN IF CharAt(line, 1) = 0 THEN same
            ELSE IF Match(line, 1, "help") /\ CharAt(line, 5) = 0
            THEN [same EXCEPT !.out = EditorHelp]
            ELSE IF Match(line, 1, "save") /\ CharAt(line, 5) = 0
            THEN [same EXCEPT !.files = w.files, !.out = SaveReport(w.ret)]
            ELSE IF Match(line, 1, "wq") /\ CharAt(line, 3) = 0
            THEN [same EXCEPT !.files = w.files, !.out = SaveReport(w.ret), !.done = TRUE]
            ELSE IF Match(line, 1, "q") /\ CharAt(line, 2) = 0
            THEN [same EXCEPT !.out = kprintf("Quit without saving\n", <<>>), !.done = TRUE]
            ELSE [same EXCEPT !.out = kprintf("Unknown editor command: %s\n", <<line>>)]
       ELSE [same EXCEPT
               !.buf = IF Len(grown) < MAX_FILE_SIZE THEN grown \o <<10>> ELSE grown,
               !.out = (IF Len(line) > room THEN kprintf("Buffer full\n", <<>>) ELSE <<>>)
                       \o (IF Len(grown) < MAX_FILE_SIZE THEN <<>>
                           ELSE kprintf("Buffer full, no newline\n", <<>>))]

ShellHelp ==
    kprintf("Available commands:\n", <<>>)
    \o kprintf("  help           - show this message\n", <<>>)
    \o kprintf("  clear          - clear the screen\n", <<>>)
    \o kprintf("  echo <text>    - echo text\n", <<>>)
    \o kprintf("  version        - show kernel version\n", <<>>)
    \o kprintf("  ls             - list files\n", <<>>)
    \o kprintf("  cat <file>     - show file contents\n", <<>>)
    \o kprintf("  write <file> <text> - write text to file (overwrite)\n", <<>>)
    \o kprintf("  touch <file>   - create empty file\n", <<>>)
    \o kprintf("  rm <file>      - remove file\n", <<>>)
    \o kprintf("  nano <file>    - edit/create a file with simple editor\n", <<>>)

\* number of characters the write command copies into fname from index k
FnameLen(s, k) ==
    CHOOSE n \in 0..(MAX_NAME - 1) :
        /\ \A i \in 0..(n - 1) : CharAt(s, k + i) \notin {0, 32}
        /\ n = MAX_NAME - 1 \/ CharAt(s, k + n) \in {0, 32}

\* the write command, p the index of its first character
run_write(fl, line, p) ==
    LET quiet == [files |-> fl, out |-> <<>>, clear |-> FALSE, nano |-> FALSE,
                  arg |-> <<>>, ret |-> 0]
        a == skip_spaces(line, p + 6)
        fi == FnameLen(line, a)
        fname == SubSeq(line, a + 1, a + fi)
        t == skip_spaces(line, a + fi)
        text == From(line, t)
        w == fs_write(fl, fname, text, Len(text))
    IN IF CharAt(line, a) = 0
       THEN [quiet EXCEPT !.out = kprintf("Usage: write <file> <text>\n", <<>>)]
       ELSE IF fname = <<>>
       THEN [quiet EXCEPT !.out = kprintf("Invalid file name\n", <<>>)]
       ELSE IF CharAt(line, t) = 0
       THEN [quiet EXCEPT !.out = kprintf("No text provided\n", <<>>)]
       ELSE [quiet EXCEPT
               !.files = w.files, !.ret = w.ret,
               !.out = IF w.ret < 0 THEN kprintf("Failed to write file\n", <<>>)
                       ELSE kprintf("Wrote %d bytes to %s\n", <<w.ret, fname>>)]

\* run_command gives [files, out, clear, nano, arg, ret]: the file table it
\* leaves, the bytes it prints, whether it clears the screen instead, whether
\* it enters nano_edit and with which argument, and the value the file
\* function it called returned
run_command(fl, line) ==
    LET quiet == [files |-> fl, out |-> <<>>, clear |-> FALSE, nano |-> FALSE,
                  arg |-> <<>>, ret |-> 0]
        p == skip_spaces(line, 0)
        c(k) == CharAt(line, p + k)
        Word(w) == Match(line, p, w)
        Arg(k) == From(line, skip_spaces(line, p + k))
        NoSuch(a) == kprintf("No such file: %s\n", <<a>>)
    IN IF c(0) = 0 THEN quiet
       ELSE IF Word("help") /\ c(4) = 0 THEN [quiet EXCEPT !.out = ShellHelp]
       ELSE IF Word("nano") /\ c(4) \in {0, 32}
       THEN IF Arg(4) # <<>>
            THEN [quiet EXCEPT !.nano = TRUE, !.arg = Arg(4)]
            ELSE [quiet EXCEPT !.out = kprintf("Usage: nano <file>\n", <<>>)]
       ELSE IF Word("clear") /\ c(5) \in {0, 32} THEN [quiet EXCEPT !.clear = TRUE]
       ELSE IF Word("version") /\ c(7) \in {0, 32}
       THEN [quiet EXCEPT !.out = kprintf("MiniOS version 0.2\n", <<>>)]
       ELSE IF Word("echo") /\ c(4) \in {0, 32}
       THEN [quiet EXCEPT !.out = kprintf("%s\n", <<Arg(4)>>)]
       ELSE IF Word("ls") /\ c(2) \in {0, 32} THEN [quiet EXCEPT !.out = fs_list(fl)]
       ELSE IF Word("cat ")
       THEN IF Arg(4) # <<>>
            THEN LET r == fs_read_to_console(fl, Arg(4))
                 IN [quiet EXCEPT !.ret = r.ret,
                                  !.out = IF r.ret < 0 THEN NoSuch(Arg(4))
                                          ELSE r.out \o kprintf("\n", <<>>)]
            ELSE [quiet EXCEPT !.out = kprintf("Usage: cat <file>\n", <<>>)]
       ELSE IF Word("touch ")
       THEN IF Arg(6) # <<>>
            THEN LET r == fs_create(fl, Arg(6))
                 IN [quiet EXCEPT !.files = r.files, !.ret = r.ret,
                                  !.out = IF r.ret < 0
                                          THEN kprintf("Cannot create file: %s\n", <<Arg(6)>>)
                                          ELSE <<>>]
            ELSE [quiet EXCEPT !.out = kprintf("Usage: touch <file>\n", <<>>)]
       ELSE IF Word("rm ")
       THEN IF Arg(3) # <<>>
            THEN LET r == fs_remove(fl, Arg(3))
                 IN [quiet EXCEPT !.files = r.files, !.ret = r.ret,
                                  !.out = IF r.ret < 0 THEN NoSuch(Arg(3)) ELSE <<>>]
            ELSE [quiet EXCEPT !.out = kprintf("Usage: rm <file>\n", <<>>)]
       ELSE IF Word("write ") THEN run_write(fl, line, p)
       ELSE [quiet EXCEPT !.out = kprintf("Unknown command: %s\n", <<From(line, p)>>)]

\* the write command line for a file token and a text
WriteLine(tok, text) == Str("write ") \o tok \o <<32>> \o text

\* tokens: of 3, MAX_NAME - 1 and MAX_NAME characters
Tokens == {Str("foo"), Rep(97, MAX_NAME - 1), Rep(97, MAX_NAME - 1) \o <<98>>}

Texts == {Str("bar baz"), Str("hi")}

Lines ==
    {WriteLine(tok, text) : tok \in Tokens, text \in Texts}
    \cup {Str("write foo   bar  baz"), Str("write"), Str("write foo"),
          Str("help"), Str("clear"), Str("version"), Str("echo a  b"), Str("ls"),
          Str("cat welcome"), Str("cat"), Str("touch foo"), Str("rm foo"),
          Str("nano foo"), Str("frob x"), Str("   ")}

EditLines ==
    {Str("abc"), Rep(121, INPUT_BUF - 1), <<>>, Str("."), Str(".help"), Str(".save"),
     Str(".wq"), Str(".q"), Str(".quit")}

\* kernel_main after read_line returned an empty line: "continue", the prompt
\* and read_line again
EmptyLine ==
    /\ pc = "entered"
    /\ rl_from = "loop"
    /\ rl_buf = <<>>
    /\ Emit(kprintf("mini> ", <<>>))
    /\ pc' = "loop"
    /\ UNCHANGED <<edVars, kbdVars, intVars, files, gcVars, histVars, callVars>>

\* kernel_main after read_line returned a line: run_command on it, then the
\* prompt and read_line again; the nano command runs nano_edit up to its
\* first call of read_line instead.  out is what the step prints.
RunCommand ==
    /\ pc = "entered"
    /\ rl_from = "loop"
    /\ rl_buf # <<>>
    /\ LET r == run_command(files, rl_buf)
           ed == nano_open(files, r.arg)
           shown == IF r.nano THEN ed.out \o kprintf("edit> ", <<>>)
                    ELSE r.out \o kprintf("mini> ", <<>>)
           t == vga_puts(IF r.clear THEN vga_clear(Term) ELSE Term, shown)
       IN /\ files' = r.files
          /\ ret' = r.ret
          /\ out' = shown
          /\ term_row' = t.row
          /\ term_col' = t.col
          /\ vga_buffer' = t.buf
          /\ pc' = IF r.nano THEN "nano" ELSE "loop"
          /\ ed_name' = IF r.nano THEN r.arg ELSE <<>>
          /\ ed_buf' = IF r.nano THEN ed.buf ELSE <<>>
    /\ call' = [fn |-> "run_command", name |-> rl_buf, data |-> <<>>, len |-> 0]
    /\ rl_buf' = <<>>
    /\ last_idx' = -1
    /\ nops' = nops + 1
    /\ UNCHANGED <<rl_from, kbdVars, intVars, gcVars, histVars, written, fs_calls>>

\* nano_edit after read_line returned: the rest of the pass of its loop, then
\* its prompt and read_line again, or its return through run_command to
\* kernel_main, which prints the shell prompt and calls read_line.  out is
\* what the step prints.
NanoLine ==
    /\ pc = "entered"
    /\ rl_from = "nano"
    /\ LET r == nano_line(files, ed_name, ed_buf, rl_buf)
           shown == r.out \o (IF r.done
                              THEN kprintf("Exiting editor\n", <<>>) \o kprintf("mini> ", <<>>)
                              ELSE kprintf("edit> ", <<>>))
       IN /\ files' = r.files
          /\ out' = shown
          /\ Emit(shown)
          /\ pc' = IF r.done THEN "loop" ELSE "nano"
          /\ ed_name' = IF r.done THEN <<>> ELSE ed_name
          /\ ed_buf' = IF r.done THEN <<>> ELSE r.buf
    /\ call' = [fn |-> "nano_edit", name |-> rl_buf, data |-> <<>>, len |-> 0]
    /\ rl_buf' = <<>>
    /\ ret' = 0
    /\ last_idx' = -1
    /\ nops' = nops + 1
    /\ UNCHANGED <<rl_from, kbdVars, intVars, gcVars, histVars, written, fs_calls>>

(***************************************************************************)
(* Lines typed at the keyboard.  Every character of a line is a key press: *)
(* an interrupt, a call of keyboard_getchar_irq and a pass of read_line;   *)
(* Enter ends the line.                                                    *)
(***************************************************************************)
\* the make codes of the keys that type s
KeysOf(s) == [k \in 1..Len(s) |-> Scancode(s[k])]

\* the line s, then Enter
Entered(s) == KeysOf(s) \o <<Scancode(10)>>

\* a command by itself; a file made and used; the empty line; an editor
\* session
ShellScripts ==
    {Entered(line) : line \in Lines}
    \cup {Entered(Str("touch foo")) \o Entered(Str("ls")) \o Entered(Str("rm foo")),
          Entered(Str("write foo bar baz")) \o Entered(Str("cat foo")),
          Entered(<<>>) \o Entered(Str("version")),
          Entered(Str("clear")) \o Entered(Str("help")),
          Entered(Str("nano foo")) \o Entered(Str("abc")) \o Entered(Str(".wq"))
              \o Entered(Str("cat foo"))}

NextShell ==
    \/ KeyTyped
    \/ ReadLine
    \/ EmptyLine
    \/ RunCommand
    \/ NanoLine

InitShell ==
    /\ AtPrompt(0, 0)
    /\ tape \in ShellScripts

SpecShell == InitShell /\ [][NextShell]_vars

(***************************************************************************)
(* The file store: single calls on the table of the first prompt, and on   *)
(* the full table left by the lines touch f1, touch f2, ... typed there.   *)
(***************************************************************************)
\* the k-th of the names f1, f2, ... used to fill the table
FillerName(k) == <<102>> \o kputu(k, 10)

\* the keys of the lines touch f1, ..., touch fn
RECURSIVE TouchLines(_)
TouchLines(n) ==
    IF n = 0 THEN <<>>
    ELSE TouchLines(n - 1) \o Entered(Str("touch ") \o FillerName(n))

InitFs ==
    /\ AtPrompt(0, 0)
    /\ tape \in {<<>>, TouchLines(MAX_FILES - 1)}

NextFs ==
    \/ KeyTyped
    \/ ReadLine
    \/ RunCommand
    \/ \E name \in Names : FsCreate(name)
    \/ \E name \in Names, a \in WriteArgs : FsWrite(name, a)
    \/ \E name \in Names : FsRemove(name)
    \/ \E name \in Names : FsRead(name)
    \/ FsList

SpecFs == InitFs /\ [][NextFs]_vars

(***************************************************************************)
(* Command lines that name a command and give it no argument               *)
(***************************************************************************)
\* the commands that take an argument, with the usage message of each
ArgCommands ==
    {[name |-> "cat", usage |-> "Usage: cat <file>\n"],
     [name |-> "touch", usage |-> "Usage: touch <file>\n"],
     [name |-> "rm", usage |-> "Usage: rm <file>\n"],
     [name |-> "write", usage |-> "Usage: write <file> <text>\n"],
     [name |-> "nano", usage |-> "Usage: nano <file>\n"]}

\* the command name followed by n spaces
BareLine(c, n) == Str(c.name) \o Rep(32, n)

UsageLines == {BareLine(c, n) : c \in ArgCommands, n \in 0..MaxPad}

InitUsage ==
    /\ AtPrompt(0, 0)
    /\ tape \in {Entered(line) : line \in UsageLines}

NextUsage ==
    \/ KeyTyped
    \/ ReadLine
    \/ RunCommand

SpecUsage == InitUsage /\ [][NextUsage]_vars

(***************************************************************************)
(* Editor sessions: the nano command, then lines at the editor prompt      *)
(***************************************************************************)
\* nano on a new name, on a name of MAX_NAME characters and on the file that
\* fs_init made
NanoCommands == {Str("nano foo"), Str("nano ") \o LongName, Str("nano welcome")}

\* the longest line read_line can return, entered n times in a row
RECURSIVE FullLines(_)
FullLines(n) == IF n = 0 THEN <<>> ELSE Entered(Rep(121, INPUT_BUF - 1)) \o FullLines(n - 1)

\* one line; a line, a save and a second save; two saves; a line written on
\* leaving; the buffer filled by FillPasses lines of full length, then a line
EditorScripts ==
    {Entered(n) \o Entered(line) : n \in NanoCommands, line \in EditLines}
    \cup {Entered(n) \o Entered(Str(".save")) \o Entered(Str(".save")) : n \in NanoCommands}
    \cup {Entered(n) \o Entered(Str("abc")) \o Entered(Str(".save")) \o Entered(Str(".save")) :
              n \in NanoCommands}
    \cup {Entered(Str("nano foo")) \o Entered(Str("abc")) \o Entered(Str(".wq")),
          Entered(Str("nano foo")) \o FullLines(FillPasses) \o Entered(Str("abc")),
          Entered(Str("nano foo")) \o FullLines(FillPasses + 1) \o Entered(Str(".wq"))}

InitEditor ==
    /\ AtPrompt(0, 0)
    /\ tape \in EditorScripts

NextEditor ==
    \/ KeyTyped
    \/ ReadLine
    \/ RunCommand
    \/ NanoLine

SpecEditor == InitEditor /\ [][NextEditor]_vars

(***************************************************************************)
(* The console called directly: vga_puts (vga_putc on each byte of a       *)
(* string) and vga_clear, from the state in which kernel_main enters its   *)
(* command loop.                                                           *)
(***************************************************************************)
\* n plain characters, no two neighbouring rows of VGA_WIDTH alike
Plain(n) == [i \in 1..n |-> 33 + (i % 89)]

\* more characters than the screen holds, by these many
Overshoots == {1, VGA_WIDTH - 1, VGA_WIDTH, VGA_WIDTH + 1, 2 * VGA_WIDTH}

\* runs of newline, carriage return, backspace, tab, letters and a byte above
\* 127
VgaStrings ==
    {Rep(10, 1), Rep(10, VGA_HEIGHT - 1), Rep(13, 1), Rep(8, 1), Rep(9, 1), Rep(65, 1),
     Rep(66, VGA_WIDTH - 1), Rep(67, VGA_WIDTH), Rep(68, VGA_WIDTH + 1), Rep(200, 1)}

VgaPuts(s) ==
    /\ pc = "loop"
    /\ nops < MaxVgaOps
    /\ Emit(s)
    /\ call' = [fn |-> "vga_puts", name |-> <<>>, data |-> s, len |-> Len(s)]
    /\ out' = s
    /\ ret' = 0
    /\ last_idx' = -1
    /\ nops' = nops + 1
    /\ UNCHANGED <<edVars, kbdVars, intVars, files, pc, gcVars, histVars, written, fs_calls>>

\* the screen is as vga_clear leaves it
Cleared ==
    /\ term_row = 0 /\ term_col = 0
    /\ vga_buffer = [k \in 0..(VGA_WIDTH * VGA_HEIGHT - 1) |-> Cell(32, term_color)]

\* texts longer than the screen
LongTexts == {Plain(VGA_WIDTH * VGA_HEIGHT + k) : k \in Overshoots}

\* vga_puts of a long text on a cleared screen
VgaFill(s) ==
    /\ Cleared
    /\ VgaPuts(s)

VgaClear ==
    /\ pc = "loop"
    /\ nops < MaxVgaOps
    /\ term_row' = vga_clear(Term).row
    /\ term_col' = vga_clear(Term).col
    /\ vga_buffer' = vga_clear(Term).buf
    /\ call' = [fn |-> "vga_clear", name |-> <<>>, data |-> <<>>, len |-> 0]
    /\ out' = <<>>
    /\ ret' = 0
    /\ last_idx' = -1
    /\ nops' = nops + 1
    /\ UNCHANGED <<edVars, kbdVars, intVars, files, pc, gcVars, histVars, written, fs_calls>>

NextVga ==
    \/ \E s \in VgaStrings : VgaPuts(s)
    \/ \E s \in LongTexts : VgaFill(s)
    \/ VgaClear

SpecVga == InitLoop /\ [][NextVga]_vars

(***************************************************************************)
(* The file store listed after creations and removals: the lines touch x,  *)
(* touch y and rm x typed at the first prompt, and single calls.           *)
(***************************************************************************)
InitSlots ==
    /\ AtPrompt(0, 0)
    /\ tape \in {<<>>}
                \cup {Entered(Str("touch ") \o p[1]) \o Entered(Str("touch ") \o p[2])
                          \o Entered(Str("rm ") \o p[1]) :
                              p \in {q \in Names \X Names : q[1] # q[2]}}

NextSlots ==
    \/ KeyTyped
    \/ ReadLine
    \/ RunCommand
    \/ \E name \in Names : FsCreate(name)
    \/ \E name \in Names : FsRemove(name)
    \/ FsList

SpecSlots == InitSlots /\ [][NextSlots]_vars

(***************************************************************************)
(* The keyboard handler on every scancode byte: one interrupt, with the    *)
(* queue empty, holding one character, one short of full, and full.        *)
(***************************************************************************)
ScancodeBytes == 0..255

\* presses of Backspace read, and make codes of a pending, before the
\* interrupt
KeyFills ==
    {<<0, 0>>, <<0, 1>>, <<0, KBUF_SIZE - 2>>, <<0, KBUF_SIZE - 1>>,
     <<KBUF_SIZE - 1, KBUF_SIZE - 2>>}

InitKeys ==
    \E f \in KeyFills :
        /\ AtPrompt(f[1], f[2])
        /\ tape \in {<<sc>> : sc \in ScancodeBytes}

NextKeys == KeyboardIrq

SpecKeys == InitKeys /\ [][NextKeys]_vars

(***************************************************************************)
(* read_line at the shell prompt: characters and Backspace typed on the    *)
(* row of the prompt, past its end, and past the end of the line buffer.   *)
(***************************************************************************)
\* n letters, no two neighbours alike
Letters(n) == [i \in 1..n |-> 97 + (i % 26)]

\* the letters that fill the row of the prompt but for one cell, then
\* Backspace; the letters that fill the row, then Backspace twice; more
\* letters than the line buffer holds, then Backspace and Enter; Backspace
\* and Enter on the empty line, then a line
LineScripts ==
    {KeysOf(Letters(VGA_WIDTH - 7) \o Rep(8, 1)),
     KeysOf(Letters(VGA_WIDTH - 6) \o Rep(8, 2)),
     Entered(Letters(INPUT_BUF + 2) \o Rep(8, 1)),
     KeysOf(Rep(8, 1)) \o Entered(<<>>) \o Entered(Str("ab") \o Rep(8, 1) \o Str("c"))}

InitLine ==
    /\ AtPrompt(0, 0)
    /\ tape \in LineScripts

NextLine ==
    \/ KeyTyped
    \/ ReadLine
    \/ EmptyLine
    \/ RunCommand

SpecLine == InitLine /\ [][NextLine]_vars

(***************************************************************************)
(* Claims about the keyboard queue                                         *)
(***************************************************************************)

\* C1: as long as no decoded character was dropped, the characters returned
\* by keyboard_getchar_irq followed by the characters still pending are
\* exactly the characters decoded, in interrupt order: none lost, duplicated
\* or reordered, wherever the interrupts fell between the steps of a call.
C1_QueueFifo ==
    (typed = accepted) => (popped \o Pending = typed)

\* C1 witness: two different characters were returned in the order typed
\* and the next call has read its character while more are pending.
C1_Witness ==
    /\ typed = accepted
    /\ Len(popped) >= 2
    /\ popped[Len(popped) - 1] # popped[Len(popped)]
    /\ pc = "gc_adv"
    /\ Len(Pending) >= 2

\* C2: a character decoded while the queue is full leaves kbuf_head,
\* kbuf_tail and every slot unchanged, and is never returned: what
\* keyboard_getchar_irq returns, followed by what is pending, is always the
\* sequence of characters decoded while there was room.
C2_DropNewest ==
    /\ [][(typed' # typed /\ IsFull(kbuf_head, kbuf_tail)) =>
            (/\ kbuf_head' = kbuf_head
             /\ kbuf_tail' = kbuf_tail
             /\ kbuf' = kbuf
             /\ accepted' = accepted)]_vars
    /\ [](popped \o Pending = accepted)

\* C2 witness: the queue filled up, the next character was dropped, and
\* calls returned characters afterwards (had a call returned before the drop,
\* one more character would have been stored).
C2_Witness ==
    /\ Len(typed) > Len(accepted)
    /\ Len(accepted) = 2 * (KBUF_SIZE - 1)
    /\ Len(popped) > KBUF_SIZE
    /\ pc = "loop"

\* C3: both indices stay in 0..KBUF_SIZE-1, (head - tail) mod KBUF_SIZE is
\* the number of characters stored and not yet returned, which is at most
\* KBUF_SIZE-1, the queue is empty exactly when head = tail, and the slot a
\* call reads holds the oldest character stored and not yet returned.
C3_QueueInvariant ==
    /\ kbuf_head \in 0..(KBUF_SIZE - 1)
    /\ kbuf_tail \in 0..(KBUF_SIZE - 1)
    /\ (kbuf_head - kbuf_tail) % KBUF_SIZE = Len(accepted) - Len(popped)
    /\ Len(accepted) - Len(popped) \in 0..(KBUF_SIZE - 1)
    /\ (Len(accepted) = Len(popped)) <=> (kbuf_head = kbuf_tail)
    /\ (pc = "gc_read") =>
            (/\ kbuf_head # kbuf_tail
             /\ kbuf[kbuf_tail] = accepted[Len(popped) + 1])
    /\ (pc = "gc_adv") => (gc_c = accepted[Len(popped) + 1])

\* C3 witness: kbuf_tail, and then kbuf_head for the second time, have
\* wrapped around the end of kbuf and a call is about to read a slot.
C3_Witness ==
    /\ Len(accepted) >= 2 * KBUF_SIZE
    /\ Len(popped) >= KBUF_SIZE
    /\ kbuf_head < kbuf_tail
    /\ pc = "gc_read"

\* C5: after the reset in interrupts_install only keyboard_handler changes
\* kbuf_head and only keyboard_getchar_irq changes kbuf_tail; one run of
\* keyboard_handler changes nothing but kbuf[old head] and kbuf_head: not
\* kbuf_tail, the terminal, the interrupt set-up or the file table.
C5_SingleWriter ==
    [][/\ (kbuf_head' # kbuf_head) => (irqs' # irqs)
       /\ (kbuf_tail' # kbuf_tail) => (popped' # popped)
       /\ (irqs' # irqs) =>
            (/\ \A k \in 0..(KBUF_SIZE - 1) : k # kbuf_head => kbuf'[k] = kbuf[k]
             /\ UNCHANGED <<kbuf_tail, vgaVars, intVars, files>>)]_vars

\* C5 witness: keyboard_handler has stored a character while a call of
\* keyboard_getchar_irq stood between its read and its advance of kbuf_tail.
C5_Witness ==
    /\ pc = "gc_adv"
    /\ Len(accepted) > Len(popped) + 1
    /\ kbuf[(kbuf_head - 1) % KBUF_SIZE] # gc_c
    /\ irqs >= 2

(***************************************************************************)
(* Claim about the blocking call, under SpecKbdLive                        *)
(***************************************************************************)

\* a call of keyboard_getchar_irq has found the queue empty and is waiting
\* after n characters were decoded
Blocked(n) ==
    /\ pc = "gc_spin"
    /\ gc_waited
    /\ kbuf_head = kbuf_tail
    /\ Len(typed) = n

\* C4: keyboard_getchar_irq leaves its loop, and returns, only from a state
\* in which kbuf_head # kbuf_tail; a call that waited on an empty queue
\* returns only after keyboard_handler has stored a character; and if a
\* mapped make code arrives after the call blocked, the call eventually
\* returns that character.
C4_BlockingPop ==
    /\ [][/\ (pc = "gc_spin" /\ pc' # "gc_spin") => kbuf_head # kbuf_tail
          /\ (popped' # popped) =>
                (/\ kbuf_head # kbuf_tail
                 /\ Len(accepted) > Len(popped))]_vars
    /\ \A n \in 0..MaxIrq :
          [](Blocked(n) =>
                (<>(Len(typed) > n) =>
                    <>(Len(popped) = n + 1 /\ popped[n + 1] = typed[n + 1])))

\* C4 witness: a call that waited on the empty queue has returned the
\* character typed after it blocked.
C4_Witness ==
    /\ pc = "loop"
    /\ gc_waited
    /\ Len(popped) = 2
    /\ popped = typed


(***************************************************************************)
(* Claims about the file store                                             *)
(***************************************************************************)
Used(fl) == {k \in 0..(MAX_FILES - 1) : fl[k].used # 0}

\* some used slot holds exactly this name
NameInUse(fl, name) == \E k \in Used(fl) : fl[k].name = name

TableFull(fl) == Used(fl) = 0..(MAX_FILES - 1)

\* C6: after any sequence of fs_create, fs_write and fs_remove calls with
\* arbitrary names, names of MAX_NAME or more characters included, no two used
\* entries hold the same stored name.
C6_NamesUnique ==
    \A i \in Used(files), j \in Used(files) : files[i].name = files[j].name => i = j

\* stored names other than a cut one stay unique
C6_ShortNamesUnique ==
    \A i \in Used(files), j \in Used(files) :
        (files[i].name = files[j].name /\ files[i].name # StoredName(LongName)) => i = j

\* C7: once fs_write(name, data, len) has returned n >= 0, and until that file
\* is next written or removed, fs_find(name) finds an entry and
\* fs_read_to_console(name) emits exactly data[0..n) and returns n.
C7_WriteReadRoundTrip ==
    \A name \in DOMAIN written :
        /\ fs_find(files, name) >= 0
        /\ fs_read_to_console(files, name).out = written[name]
        /\ fs_read_to_console(files, name).ret = Len(written[name])

\* C8: a successful fs_write returns n = min(len, MAX_FILE_SIZE), leaves the
\* entry with size n and data[0..n) as its first n bytes, whatever the entry
\* held before, and every used entry has 0 <= size <= MAX_FILE_SIZE.
C8_BoundedOverwrite ==
    /\ (call.fn = "fs_write" /\ ret >= 0) =>
          /\ ret = Min(call.len, MAX_FILE_SIZE)
          /\ last_idx \in Used(files)
          /\ files[last_idx].name = StoredName(call.name)
          /\ files[last_idx].size = ret
          /\ \A k \in 0..(ret - 1) : files[last_idx].data[k] = call.data[k + 1]
    /\ \A k \in Used(files) : files[k].size >= 0 /\ files[k].size <= MAX_FILE_SIZE

\* a write of two bytes has replaced, in the same entry, a write that was cut
\* to MAX_FILE_SIZE bytes
C8_Witness ==
    /\ call.fn = "fs_write"
    /\ ret = 2
    /\ files[last_idx].size = 2
    /\ files[last_idx].data[2] = 122
    /\ files[last_idx].data[MAX_FILE_SIZE - 1] = 122

\* C9: fs_create on a name a used slot already has or with every slot used,
\* fs_write of a new name with every slot used, and fs_remove or
\* fs_read_to_console on a name that is not found return -1 and leave the
\* file table as it was.
C9_FailedOpsChangeNothing ==
    [][nops' # nops =>
        LET Fails ==
              \/ /\ call'.fn = "fs_create"
                 /\ NameInUse(files, call'.name) \/ TableFull(files)
              \/ /\ call'.fn = "fs_write"
                 /\ ~NameInUse(files, call'.name) /\ TableFull(files)
              \/ /\ call'.fn \in {"fs_remove", "fs_read_to_console"}
                 /\ ~NameInUse(files, call'.name)
        IN /\ Fails => (ret' = -1 /\ files' = files)
           /\ (call'.fn \in {"fs_create", "fs_write", "fs_remove", "fs_read_to_console"}
               /\ ret' = -1) => files' = files]_vars

\* a create and a write of a new name have failed on the table that
\* MAX_FILES - 1 typed touch lines filled
C9_Witness ==
    /\ TableFull(files)
    /\ call.fn \in {"fs_create", "fs_write"}
    /\ ~NameInUse(files, call.name)
    /\ ret = -1
    /\ nops = MAX_FILES

(***************************************************************************)
(* Claims about the shell                                                  *)
(***************************************************************************)
\* the step is kernel_main's call of run_command on this line
ShellRuns(line) ==
    /\ pc = "entered" /\ rl_from = "loop" /\ nops' # nops
    /\ call'.fn = "run_command" /\ call'.name = line

\* what the write command does when it writes text to the file called name
WriteOutcome(fl, name, text) ==
    LET w == fs_write(fl, name, text, Len(text))
    IN [files |-> w.files,
        out |-> IF w.ret < 0 THEN kprintf("Failed to write file\n", <<>>)
                ELSE kprintf("Wrote %d bytes to %s\n", <<w.ret, name>>)]

\* C10: for every line write <file> <text>, the file name used is the first
\* space-delimited token after the command, cut to MAX_NAME - 1 characters if
\* longer, and the content written is exactly the text after that whole token
\* and its separating spaces; write foo bar baz stores the 7 bytes bar baz in
\* foo and reports 7 bytes written.
C10_WriteParsing ==
    [][\A tok \in Tokens, text \in Texts :
          (ShellRuns(WriteLine(tok, text))) =>
             /\ files' = WriteOutcome(files, StoredName(tok), text).files
             /\ out' = WriteOutcome(files, StoredName(tok), text).out \o kprintf("mini> ", <<>>)
             /\ (tok = Str("foo") /\ text = Str("bar baz")) =>
                   /\ out' = Str("Wrote 7 bytes to foo") \o <<10>> \o Str("mini> ")
                   /\ fs_read_to_console(files', Str("foo")).out = Str("bar baz")]_vars

\* the same, of the lines whose token fits the name field
C10_ShortTokenParsing ==
    [][\A tok \in Tokens, text \in Texts :
          (ShellRuns(WriteLine(tok, text))
           /\ Len(tok) < MAX_NAME) =>
             /\ files' = WriteOutcome(files, StoredName(tok), text).files
             /\ out' = WriteOutcome(files, StoredName(tok), text).out \o kprintf("mini> ", <<>>)
             /\ (tok = Str("foo") /\ text = Str("bar baz")) =>
                   /\ out' = Str("Wrote 7 bytes to foo") \o <<10>> \o Str("mini> ")
                   /\ fs_read_to_console(files', Str("foo")).out = Str("bar baz")]_vars

\* C11: for each of cat, touch, rm, write and nano, a line that is the command
\* name alone, with or without trailing spaces, prints that command's usage
\* message (and then the prompt) and leaves the file table unchanged.
C11_UsageOnMissingArgument ==
    [][\A c \in ArgCommands, n \in 0..MaxPad :
          (ShellRuns(BareLine(c, n))) =>
             /\ out' = kprintf(c.usage, <<>>) \o kprintf("mini> ", <<>>)
             /\ files' = files
             /\ pc' = "loop"]_vars

\* the same, of the lines that end in at least one space and of nano
C11_UsageAfterSpace ==
    [][\A c \in ArgCommands, n \in 0..MaxPad :
          (ShellRuns(BareLine(c, n))
           /\ (n > 0 \/ c.name = "nano")) =>
             /\ out' = kprintf(c.usage, <<>>) \o kprintf("mini> ", <<>>)
             /\ files' = files
             /\ pc' = "loop"]_vars

\* a bare command name without a trailing space is reported as unknown
C11_BareNameUnknown ==
    [][\A c \in ArgCommands :
          (ShellRuns(BareLine(c, 0)) /\ c.name # "nano") =>
             /\ out' = kprintf("Unknown command: %s\n", <<Str(c.name)>>) \o kprintf("mini> ", <<>>)
             /\ files' = files]_vars

(***************************************************************************)
(* Claims about the line editor                                            *)
(***************************************************************************)
\* the step is one pass of the editor loop over this line
EditorReads(line) ==
    /\ pc = "entered" /\ rl_from = "nano" /\ nops' # nops
    /\ call'.fn = "nano_edit" /\ call'.name = line /\ call'.len = 0

\* C12: in an editor session the line .quit ends the session, nano_edit
\* returning to the shell prompt, without writing the edit buffer: the file
\* table is as it was before the line.
C12_QuitEndsSession ==
    [][EditorReads(Str(".quit")) => (pc' = "loop" /\ files' = files)]_vars

\* what the editor does with .quit and with .q
C12_QuitLines ==
    [][/\ EditorReads(Str(".quit")) =>
             /\ pc' = "nano" /\ files' = files /\ ed_buf' = ed_buf
             /\ out' = kprintf("Unknown editor command: %s\n", <<Str(".quit")>>)
                       \o kprintf("edit> ", <<>>)
       /\ EditorReads(Str(".q")) =>
             /\ pc' = "loop" /\ files' = files
             /\ out' = kprintf("Quit without saving\n", <<>>)
                       \o kprintf("Exiting editor\n", <<>>)
                       \o kprintf("mini> ", <<>>)]_vars

\* C13: .save entered twice in one session with no edit in between writes the
\* same bytes both times: both saves report the same result and the file table
\* after the second save equals the file table after the first.
C13_SaveIdempotent ==
    [][(call.fn = "nano_edit" /\ call.name = Str(".save") /\ EditorReads(Str(".save"))) =>
          (out' = out /\ files' = files)]_vars

\* the same, of sessions whose file name fits the name field
C13_SaveIdempotentShortName ==
    [][(call.fn = "nano_edit" /\ call.name = Str(".save") /\ EditorReads(Str(".save"))
        /\ Len(ed_name) < MAX_NAME) =>
          (out' = out /\ files' = files)]_vars

\* the edit buffer after line is appended to buf
Appended(buf, line) == SubSeq(buf \o line \o <<10>>, 1, Min(Len(buf) + Len(line) + 1, MAX_FILE_SIZE))

\* a pass over a line that is not a . command appends the line and a newline,
\* cut at MAX_FILE_SIZE with a buffer-full notice, and the session continues
AppendsLine(line) ==
    EditorReads(line) =>
       /\ ed_buf' = Appended(ed_buf, line)
       /\ pc' = "nano"
       /\ files' = files
       /\ IF Len(ed_buf) + Len(line) + 1 <= MAX_FILE_SIZE
          THEN out' = kprintf("edit> ", <<>>)
          ELSE SubSeq(out', 1, 11) = Str("Buffer full")

\* C14: every input line that is not a . command, the empty line included,
\* changes the edit buffer from B to B, the line and one newline when that
\* fits in MAX_FILE_SIZE bytes; when it does not, the overflowing characters
\* are dropped, a buffer-full notice is printed and the session continues; the
\* edit buffer is never longer than MAX_FILE_SIZE.
C14_EditorAppend ==
    [][/\ \A line \in EditLines : CharAt(line, 0) # 46 => AppendsLine(line)
       /\ Len(ed_buf') <= MAX_FILE_SIZE]_vars

\* the same, of the lines that are not empty
C14_NonEmptyAppend ==
    [][/\ \A line \in EditLines : CharAt(line, 0) \notin {0, 46} => AppendsLine(line)
       /\ Len(ed_buf') <= MAX_FILE_SIZE]_vars

\* the empty line changes nothing and prints only the next prompt
C14_EmptyLineIgnored ==
    [][EditorReads(<<>>) =>
          (ed_buf' = ed_buf /\ files' = files /\ pc' = "nano"
           /\ out' = kprintf("edit> ", <<>>))]_vars

(***************************************************************************)
(* Claims about the console                                                *)
(***************************************************************************)
CursorInBounds ==
    /\ term_row >= 0 /\ term_row < VGA_HEIGHT
    /\ term_col >= 0 /\ term_col < VGA_WIDTH

\* every cell index written since t was taken from the state is on the screen
WritesInBounds(t) == t.hi >= t.lo => (t.lo >= 0 /\ t.hi < VGA_WIDTH * VGA_HEIGHT)

\* C15: after any sequence of vga_putc calls, on any byte, and vga_clear calls
\* the cursor satisfies 0 <= term_row < VGA_HEIGHT and 0 <= term_col <
\* VGA_WIDTH, and every cell written by vga_putat or vga_scroll has an index
\* in [0, VGA_WIDTH * VGA_HEIGHT).
C15_CursorInBounds ==
    /\ [](CursorInBounds)
    /\ [][/\ call'.fn = "vga_puts" /\ nops' # nops => WritesInBounds(vga_puts(Term, call'.data))
          /\ call'.fn = "vga_clear" /\ nops' # nops => WritesInBounds(vga_clear(Term))]_vars

\* a row of letters written on the last row has wrapped and scrolled the
\* screen, leaving the cursor at the start of the last row
C15_Witness ==
    /\ call.fn = "vga_puts" /\ call.data = Rep(67, VGA_WIDTH)
    /\ nops = 2
    /\ term_row = VGA_HEIGHT - 1 /\ term_col = 0
    /\ vga_buffer[(VGA_HEIGHT - 2) * VGA_WIDTH] = Cell(67, term_color)
    /\ vga_buffer[(VGA_HEIGHT - 1) * VGA_WIDTH] = Cell(32, term_color)

\* the cell that shows at row r, column c once the n characters of s have
\* been written on a cleared screen: the rows of s are its stretches of
\* VGA_WIDTH characters, the row of the cursor being the last one
Shown(s, r, c) ==
    LET first == Max(0, Len(s) \div VGA_WIDTH - (VGA_HEIGHT - 1))
        i == (first + r) * VGA_WIDTH + c + 1
    IN IF i <= Len(s) THEN Cell(s[i], term_color) ELSE Cell(32, term_color)

\* C16: from a cleared screen, VGA_WIDTH * VGA_HEIGHT + k plain characters
\* (k >= 1) written with vga_putc leave the cursor on row VGA_HEIGHT - 1 and
\* the grid showing exactly the last VGA_HEIGHT rows written, the last being
\* the partly filled row of the cursor, padded with blanks; a scroll discards
\* only row 0 and blanks only the new last row.
C16_Scrolling ==
    /\ [][(Cleared /\ nops' # nops /\ call'.fn = "vga_puts"
           /\ call'.data \in LongTexts) =>
             /\ term_row' = VGA_HEIGHT - 1
             /\ term_col' = Len(call'.data) % VGA_WIDTH
             /\ \A r \in 0..(VGA_HEIGHT - 1), c \in 0..(VGA_WIDTH - 1) :
                   vga_buffer'[r * VGA_WIDTH + c] = Shown(call'.data, r, c)]_vars
    /\ [](LET t == vga_scroll(Term)
          IN /\ t.row = term_row /\ t.col = term_col
             /\ \A k \in 0..((VGA_HEIGHT - 1) * VGA_WIDTH - 1) : t.buf[k] = vga_buffer[k + VGA_WIDTH]
             /\ \A k \in ((VGA_HEIGHT - 1) * VGA_WIDTH)..(VGA_WIDTH * VGA_HEIGHT - 1) :
                   t.buf[k] = Cell(32, term_color))

\* a text one row longer than the screen has been written on a cleared screen
C16_Witness ==
    /\ call.fn = "vga_puts" /\ call.len = VGA_WIDTH * VGA_HEIGHT + VGA_WIDTH
    /\ nops = 2
    /\ term_row = VGA_HEIGHT - 1 /\ term_col = 0
    /\ vga_buffer[0] = Cell(call.data[2 * VGA_WIDTH + 1], term_color)
    /\ vga_buffer[(VGA_HEIGHT - 1) * VGA_WIDTH - 1] = Cell(call.data[call.len], term_color)
    /\ vga_buffer[(VGA_HEIGHT - 1) * VGA_WIDTH] = Cell(32, term_color)

(***************************************************************************)
(* Claims about interrupt set-up                                           *)
(***************************************************************************)
\* vector table zeroed and the keyboard gate 0x21 set
TableBuilt ==
    /\ idt[KBD_VECTOR] = [handler |-> "irq1_entry", selector |-> 8, flags |-> GATE_FLAGS]
    /\ \A n \in 0..(IDT_SIZE - 1) : n # KBD_VECTOR => idt[n] = NoGate

\* interrupt controller reprogrammed
ControllerRemapped == pic_remapped

\* the states in the order the claim gives them: 0 Uninitialized, 1 TableBuilt,
\* 2 ControllerRemapped, 3 Armed; -1 when the state is none of them
ClaimedPhase ==
    CASE ~TableBuilt /\ ~ControllerRemapped /\ ~int_enabled -> 0
      [] TableBuilt /\ ~ControllerRemapped /\ ~int_enabled -> 1
      [] TableBuilt /\ ControllerRemapped /\ ~int_enabled -> 2
      [] TableBuilt /\ ControllerRemapped /\ int_enabled -> 3
      [] OTHER -> -1

\* the states in the order of interrupts_install: 0 Uninitialized,
\* 1 ControllerRemapped, 2 TableBuilt, 3 Armed; -1 when none of them
InstallPhase ==
    CASE ~ControllerRemapped /\ ~TableBuilt /\ ~int_enabled -> 0
      [] ControllerRemapped /\ ~TableBuilt /\ ~int_enabled -> 1
      [] ControllerRemapped /\ TableBuilt /\ ~int_enabled -> 2
      [] ControllerRemapped /\ TableBuilt /\ int_enabled -> 3
      [] OTHER -> -1

\* C17 (as stated): every step leaves the program in one of the states
\* Uninitialized, TableBuilt, ControllerRemapped, Armed, taken in that order
\* and never left for an earlier one.
C17_InstallOrder ==
    [][/\ ClaimedPhase' # -1
       /\ ClaimedPhase' >= ClaimedPhase
       /\ ClaimedPhase' <= ClaimedPhase + 1]_vars

\* C17 (amended): every step leaves the program in one of the states
\* Uninitialized, ControllerRemapped, TableBuilt, Armed, taken in that order,
\* one at a time, and never left for an earlier one.
C17_InstallOrderAmended ==
    [][/\ InstallPhase' # -1
       /\ InstallPhase' >= InstallPhase
       /\ InstallPhase' <= InstallPhase + 1]_vars

\* interrupts_install has returned with delivery enabled
C17_Witness == pc = "fs_init" /\ InstallPhase = 3

\* the controller is remapped while the table is still empty
C17_RemappedFirst == pc = "idt_init" /\ InstallPhase = 1 /\ ClaimedPhase = -1

(***************************************************************************)
(* Claims about slot order                                                 *)
(***************************************************************************)
\* the elements of a set of numbers in ascending order
RECURSIVE Ascending(_)
Ascending(S) ==
    IF S = {} THEN <<>>
    ELSE LET lo == CHOOSE k \in S : \A j \in S : k <= j
         IN <<lo>> \o Ascending(S \ {lo})

\* the line of the listing for one entry
EntryLine(e) ==
    Str("  ") \o e.name \o Str(" (") \o kputu(e.size, 10) \o Str(" bytes)\n")

RECURSIVE EntryLines(_, _)
EntryLines(fl, slots) ==
    IF slots = <<>> THEN <<>>
    ELSE EntryLine(fl[Head(slots)]) \o EntryLines(fl, Tail(slots))

\* the header and one line per used entry, in ascending slot order
Listing(fl) == Str("Files:\n") \o EntryLines(fl, Ascending(Used(fl)))

\* the names the listing shows
ListedNames(fl) == {fl[k].name : k \in Used(fl)}

\* a single successful fs_create claims the lowest free slot, with size 0,
\* and changes no other slot
CreateClaimsLowest ==
    (call'.fn = "fs_create" /\ call'.name \in Names /\ nops' # nops /\ ret' >= 0) =>
        /\ ret' \in 0..(MAX_FILES - 1)
        /\ files[ret'].used = 0
        /\ \A j \in 0..(ret' - 1) : files[j].used # 0
        /\ files'[ret'].used # 0
        /\ files'[ret'].size = 0
        /\ \A j \in 0..(MAX_FILES - 1) : j # ret' => files'[j] = files[j]

\* fs_list prints the used entries, each once, in ascending slot order
ListsInSlotOrder ==
    /\ fs_list(files') = Listing(files')
    /\ (call'.fn = "fs_list" /\ nops' # nops) => out' = Listing(files)

\* what read_line has read when the lines touch x, touch y, rm x were entered
TouchTouchRm(x, y) ==
    Str("touch ") \o x \o <<10>> \o Str("touch ") \o y \o <<10>>
        \o Str("rm ") \o x \o <<10>>

\* after touch x, touch y and rm x at the first prompt (fs_create(x),
\* fs_create(y), fs_remove(x)), for names the table tells apart, the name y
\* is stored under is listed and the one x is stored under is not
CreatedThenRemoved(x, y) ==
    (/\ ShellRuns(Str("rm ") \o x)
     /\ popped = TouchTouchRm(x, y)
     /\ StoredName(x) # StoredName(y)) =>
        /\ StoredName(y) \in ListedNames(files')
        /\ StoredName(x) \notin ListedNames(files')

\* C18: fs_create claims the lowest-indexed free slot with size 0; fs_list
\* prints exactly the used entries, each once, in ascending slot order; and
\* after creating x and y and then removing x, y is listed and x is not.
C18_SlotOrder ==
    [][/\ CreateClaimsLowest
       /\ ListsInSlotOrder
       /\ \A x \in Names : \A y \in Names \ {x} : CreatedThenRemoved(x, y)]_vars

\* the first two parts of C18 hold for every name
C18_LowestSlotListedAscending ==
    [][CreateClaimsLowest /\ ListsInSlotOrder]_vars

\* the third part of C18 holds when x is shorter than MAX_NAME
C18_ShortNamesListed ==
    [][\A x \in Names : \A y \in Names \ {x} :
           Len(x) < MAX_NAME => CreatedThenRemoved(x, y)]_vars

\* a file created after a removal is listed before an older one
C18_NewerListedFirst ==
    /\ call.fn = "fs_create" /\ ret = 1 /\ nops = 4
    /\ Used(files) = {0, 1, 2}
    /\ fs_list(files) = Listing(files)

(***************************************************************************)
(* Claims about key presses                                                *)
(***************************************************************************)
\* bit 7 of a scancode byte
Bit7(sc) == (sc \div 128) % 2 = 1

\* C19: for every scancode byte 0..255 one run of keyboard_handler enqueues
\* at most one character: none when bit 7 is set or scancode_map maps the code
\* to 0, and otherwise exactly scancode_map[sc] when the queue is not full.
C19_OneEventPerKeyPress ==
    [][(irqs' # irqs) =>
        LET sc == Head(tape)
            c == IF sc < Len(scancode_map) THEN scancode_map[sc + 1] ELSE 0
        IN /\ kbuf_tail' = kbuf_tail
           /\ Len(Pending') \in {Len(Pending), Len(Pending) + 1}
           /\ SubSeq(Pending', 1, Len(Pending)) = Pending
           /\ (Bit7(sc) \/ c = 0) => Pending' = Pending
           /\ (~Bit7(sc) /\ c # 0 /\ ~IsFull(kbuf_head, kbuf_tail)) =>
                  Pending' = Append(Pending, c)]_vars

\* with all slots but one in use, the press of another key has been queued
\* behind the characters pending
C19_Witness ==
    /\ tape = <<>>
    /\ irqs = KBUF_SIZE - 1
    /\ Len(Pending) = KBUF_SIZE - 1
    /\ Pending[KBUF_SIZE - 1] = 98
    /\ Pending[KBUF_SIZE - 2] = 97

(***************************************************************************)
(* Claims about the echo of read_line                                      *)
(***************************************************************************)
\* the index of the cell under the cursor
CursorCell == term_row * VGA_WIDTH + term_col

\* the n cells before the cursor show s
ShownBefore(s, back) ==
    /\ CursorCell - back >= 0
    /\ \A k \in 1..Len(s) :
           vga_buffer[CursorCell - back + k - 1] = Cell(s[k], term_color)

\* the prompt, then the line buffer, then blanks to the end of the row
EchoMatches ==
    /\ ShownBefore(Str("mini> "), Len(rl_buf) + 6)
    /\ ShownBefore(rl_buf, Len(rl_buf))
    /\ \A k \in CursorCell..((term_row + 1) * VGA_WIDTH - 1) :
           vga_buffer[k] = Cell(32, term_color)

\* C20: during read_line, after any sequence of typed characters and
\* backspaces, the characters shown after the prompt are exactly buf[0..idx),
\* also when the echoed line has wrapped onto the next row.
C20_EchoMatchesBuffer == pc = "loop" => EchoMatches

\* while the cursor is on the row of the prompt the echo is the line buffer
C20_EchoOnPromptRow ==
    (pc = "loop" /\ ShownBefore(Str("mini> "), term_col) /\ term_col >= 6) => EchoMatches

\* characters and a backspace have been typed on the row of the prompt
C20_TypedAndErased ==
    /\ pc = "loop"
    /\ gc_c = 8
    /\ Len(rl_buf) = VGA_WIDTH - 8
    /\ term_col = VGA_WIDTH - 2

====
